---- MODULE Spec2Model ----
(***************************************************************************)
(* Model of the Opus workflow executor (backend/workflow/opus_executor.py)  *)
(* and of the human review decision endpoint (backend/review_endpoints.py). *)
(*                                                                         *)
(* Confidences and risk scores are integers in thousandths (0.70 is 700).  *)
(* An execute_workflow call is a coroutine: it runs atomically between the  *)
(* points where it awaits a collaborator's LLM call, so one action of the   *)
(* model is one such segment.                                              *)
(***************************************************************************)
EXTENDS Integers, Sequences, FiniteSets, TLC

VARIABLES
    workflow_states,    \* OpusWorkflowExecutor.workflow_states: claim_id -> WorkflowState
    claims_db,          \* the API layer's claims: claim_id -> Claim (status, analysis)
    audit_logs,         \* the audit log list handed to the review endpoint
    tasks,              \* the execute_workflow coroutines: task -> frame
    accepts_claim_id,   \* does orchestrator.document_analyzer.analyze take claim_id=?
    started,            \* execute_workflow calls made so far
    gate,               \* one application of the review gate (GateSpec)
    intake_call,        \* one run of Intake on a fresh state (IntakeSpec)
    parsed,             \* one collaborator response parsed into a verdict (ParseSpec)
    now,                \* the reading of datetime.now() (HistorySpec)
    stamps,             \* claim_id -> the "timestamp" of each stage event (HistorySpec)
    observed            \* what the last inspection call returned (HistorySpec)

\* The variables of the single-operation specifications
probes == <<gate, intake_call, parsed, now, stamps, observed>>

vars == <<workflow_states, claims_db, audit_logs, tasks, accepts_claim_id,
          started, probes>>

---------------------------------------------------------------------------
(* Bounds *)

\* execute_workflow calls in one behaviour
MaxExecutions == 2

\* accepted review decisions in one behaviour
MaxDecisions == 1

\* stage events appended in one behaviour of HistorySpec
MaxEvents == 2

\* the readings of the clock are 0..MaxClock
MaxClock == 1

\* inspection calls in one behaviour of HistorySpec
MaxReads == 2

ClaimIds == {"CLM-A", "CLM-B"}

\* The coroutine frames that may be live at once
Tasks == {1, 2}

---------------------------------------------------------------------------
(* Program constants *)

\* final_decision.confidence < 0.7 requires review
ConfidenceThreshold == 700

\* fraud_risk >= 0.8 with a warning requires review
FraudRiskThreshold == 800

\* fraud_risk >= 0.7 raises the SIU alert in Deliver
SiuThreshold == 700

\* len(description) < 20 fails Intake
MinDescription == 20

\* len(policy_number) < 3 fails Intake
MinPolicyNumber == 3

\* AgentResult.confidence: Field(ge=0.0, le=1.0)
MaxConfidence == 1000

\* the confidence a parser takes when the response names none: 0.5
DefaultConfidence == 500

---------------------------------------------------------------------------
(* Values *)

\* An absent AgentResult (None)
None == [status |-> "None", confidence |-> 0, fraud_risk |-> 0]

\* AgentResult: status, confidence, and metadata.get("fraud_risk", 0)
AgentResult(status, confidence, fraud_risk) ==
    [status |-> status, confidence |-> confidence, fraud_risk |-> fraud_risk]

\* ClaimAnalysis; an absent analysis has overall_status "None"
ClaimAnalysis(v, f, p, d, fd, overall) ==
    [validation_result |-> v, fraud_result |-> f, policy_result |-> p,
     document_result |-> d, final_decision |-> fd, overall_status |-> overall]

NoAnalysis == ClaimAnalysis(None, None, None, None, None, "None")

\* The data dict of a stage event: a key, text values and a number
Data(key, str, num) == [key |-> key, str |-> str, num |-> num]

NoData == Data("", <<>>, 0)

\* f"{x:.2f}": thousandths to hundredths (the inputs used never end in 5)
Fmt2(x) == (x + 5) \div 10

NoReason == [kind |-> "None", shown |-> 0]

NoEntry == [status |-> "None", confidence |-> 0, risk_score |-> 0]

NoDeliver == [final_status |-> "None", claimant_message |-> "None", siu_alert |-> FALSE]

\* WorkflowState.__init__
WorkflowState ==
    [current_stage |-> "intake",
     stage_status |-> "pending",
     stage_history |-> <<>>,
     workflow_data |-> [keys |-> {}, validation |-> NoEntry, fraud |-> NoEntry,
                        policy |-> NoEntry, documents |-> NoEntry,
                        decision |-> NoEntry, review_required |-> FALSE,
                        review_reason |-> NoReason, deliver |-> NoDeliver],
     errors |-> <<>>]

\* WorkflowState.add_stage_event
add_stage_event(ws, stage, status, message, data) ==
    [ws EXCEPT !.stage_history =
        Append(@, [stage |-> stage, status |-> status, message |-> message, data |-> data])]

\* WorkflowState.transition_to
transition_to(ws, stage, status) ==
    add_stage_event([ws EXCEPT !.current_stage = stage, !.stage_status = status],
                    stage, status, "Transitioned to " \o stage, NoData)

---------------------------------------------------------------------------
(* The review gate *)

\* The gate with the fraud rule written fraud_risk > 0.8: the boundary is lost
check_review_required_strict(analysis, ws) ==
    LET fd == analysis.final_decision
        fr == analysis.fraud_result
        vr == analysis.validation_result
        low == fd.status /= "None" /\ fd.confidence < ConfidenceThreshold
        high == fr.status = "warning" /\ fr.fraud_risk > FraudRiskThreshold
        failed == vr.status = "failed"
        r1 == IF low THEN [kind |-> "Low AI confidence", shown |-> Fmt2(fd.confidence)]
              ELSE NoReason
        r2 == IF high THEN [kind |-> "High fraud risk detected", shown |-> Fmt2(fr.fraud_risk)]
              ELSE r1
        r3 == IF failed THEN [kind |-> "Validation failed - requires manual review", shown |-> 0]
              ELSE r2
        requires_review == low \/ high \/ failed
    IN [requires_review |-> requires_review,
        ws |-> [ws EXCEPT !.workflow_data.keys = @ \cup {"review_required", "review_reason"},
                          !.workflow_data.review_required = requires_review,
                          !.workflow_data.review_reason = r3]]

\* The gate without the "analysis.final_decision and" test: an absent final
\* decision counts as confidence 0 and fires the first rule
check_review_required_absent(analysis, ws) ==
    LET fd == analysis.final_decision
        fr == analysis.fraud_result
        vr == analysis.validation_result
        low == fd.confidence < ConfidenceThreshold
        high == fr.status = "warning" /\ fr.fraud_risk >= FraudRiskThreshold
        failed == vr.status = "failed"
        r1 == IF low THEN [kind |-> "Low AI confidence", shown |-> Fmt2(fd.confidence)]
              ELSE NoReason
        r2 == IF high THEN [kind |-> "High fraud risk detected", shown |-> Fmt2(fr.fraud_risk)]
              ELSE r1
        r3 == IF failed THEN [kind |-> "Validation failed - requires manual review", shown |-> 0]
              ELSE r2
        requires_review == low \/ high \/ failed
    IN [requires_review |-> requires_review,
        ws |-> [ws EXCEPT !.workflow_data.keys = @ \cup {"review_required", "review_reason"},
                          !.workflow_data.review_required = requires_review,
                          !.workflow_data.review_reason = r3]]

\* OpusWorkflowExecutor._check_review_required: the three rules are applied in
\* turn and each one that fires overwrites review_reason.
check_review_required(analysis, ws) ==
    LET fd == analysis.final_decision
        fr == analysis.fraud_result
        vr == analysis.validation_result
        low == fd.status /= "None" /\ fd.confidence < ConfidenceThreshold
        high == fr.status /= "None" /\ fr.status = "warning"
                /\ fr.fraud_risk >= FraudRiskThreshold
        failed == vr.status /= "None" /\ vr.status = "failed"
        r1 == IF low THEN [kind |-> "Low AI confidence", shown |-> Fmt2(fd.confidence)]
              ELSE NoReason
        r2 == IF high THEN [kind |-> "High fraud risk detected", shown |-> Fmt2(fr.fraud_risk)]
              ELSE r1
        r3 == IF failed THEN [kind |-> "Validation failed - requires manual review", shown |-> 0]
              ELSE r2
        requires_review == low \/ high \/ failed
    IN [requires_review |-> requires_review,
        ws |-> [ws EXCEPT !.workflow_data.keys = @ \cup {"review_required", "review_reason"},
                          !.workflow_data.review_required = requires_review,
                          !.workflow_data.review_reason = r3]]

---------------------------------------------------------------------------
(* Exceptions and the executor's handler *)

Exception(type, text) == [type |-> type, text |-> text]

\* The except clause without its errors.append: the failure is only raised
handle_exception_unrecorded(ws, e) ==
    LET ws1 == transition_to(ws, "error", "failed")
    IN add_stage_event(ws1, "error", "failed", "Workflow failed: " \o e.text,
                       Data("error", <<e.text, e.type>>, 0))

\* execute_workflow's except clause: the state is moved to Error, an Error event
\* and an errors entry are appended, and the exception is raised again.
handle_exception(ws, e) ==
    LET ws1 == transition_to(ws, "error", "failed")
        ws2 == add_stage_event(ws1, "error", "failed", "Workflow failed: " \o e.text,
                               Data("error", <<e.text, e.type>>, 0))
    IN [ws2 EXCEPT !.errors = Append(@, [stage |-> ws2.current_stage, error |-> e.text])]

---------------------------------------------------------------------------
(* Stage runners, cut at the awaits *)

\* A ClaimSubmission: text fields by their length, the amount as a number
ClaimSubmission(policy_number, claim_amount, incident_date, description) ==
    [policy_number |-> policy_number, claim_type |-> "auto",
     claim_amount |-> claim_amount, incident_date |-> incident_date,
     description |-> description]

\* The error list _execute_intake_stage collects, in the order of its checks
IntakeErrors(sub) ==
    (IF sub.policy_number = 0 THEN <<"Policy number is required">> ELSE <<>>)
    \o (IF sub.claim_type = "" THEN <<"Claim type is required">> ELSE <<>>)
    \o (IF sub.claim_amount <= 0 THEN <<"Claim amount must be positive">> ELSE <<>>)
    \o (IF sub.incident_date = 0 THEN <<"Incident date is required">> ELSE <<>>)
    \o (IF sub.description < MinDescription
        THEN <<"Description must be at least 20 characters">> ELSE <<>>)
    \o (IF sub.policy_number /= 0 /\ sub.policy_number < MinPolicyNumber
        THEN <<"Policy number format invalid">> ELSE <<>>)

\* ', '.join(errors)
RECURSIVE Join(_)
Join(errors) ==
    IF errors = <<>> THEN ""
    ELSE IF Len(errors) = 1 THEN errors[1]
    ELSE errors[1] \o ", " \o Join(Tail(errors))

\* Intake written fail-fast: it stops at the first rule a submission violates
execute_intake_stage_fail_fast(sub, ws) ==
    LET ws1 == transition_to(ws, "intake", "in_progress")
        errors == IF IntakeErrors(sub) = <<>> THEN <<>> ELSE <<Head(IntakeErrors(sub))>>
        failure == "Intake validation failed: " \o Join(errors)
    IN IF errors /= <<>>
       THEN [raised |-> TRUE, error |-> failure,
             ws |-> add_stage_event(ws1, "intake", "failed", failure,
                                    Data("errors", errors, 0))]
       ELSE [raised |-> FALSE, error |-> "",
             ws |-> add_stage_event(
                      [ws1 EXCEPT !.workflow_data.keys = @ \cup {"intake"}],
                      "intake", "completed", "Intake completed successfully",
                      Data("intake", <<>>, sub.claim_amount))]

\* _execute_intake_stage: raised is TRUE when it ends by raising ValueError(error)
execute_intake_stage(sub, ws) ==
    LET ws1 == transition_to(ws, "intake", "in_progress")
        errors == IntakeErrors(sub)
        failure == "Intake validation failed: " \o Join(errors)
    IN IF errors /= <<>>
       THEN [raised |-> TRUE, error |-> failure,
             ws |-> add_stage_event(ws1, "intake", "failed", failure,
                                    Data("errors", errors, 0))]
       ELSE [raised |-> FALSE, error |-> "",
             ws |-> add_stage_event(
                      [ws1 EXCEPT !.workflow_data.keys = @ \cup {"intake"}],
                      "intake", "completed", "Intake completed successfully",
                      Data("intake", <<>>, sub.claim_amount))]

\* _execute_understand_stage up to the await of validator.validate
understand_begin(ws) == transition_to(ws, "understand", "in_progress")

\* _execute_understand_stage after validator.validate returned v
understand_end(ws, v) ==
    LET ws1 == [ws EXCEPT !.workflow_data.keys = @ \cup {"validation"},
                          !.workflow_data.validation =
                              [status |-> v.status, confidence |-> v.confidence,
                               risk_score |-> 0]]
    IN IF v.status = "failed"
       THEN transition_to(
                add_stage_event(ws1, "understand", "failed", "Claim validation failed",
                                Data("validation_result", <<v.status>>, v.confidence)),
                "review", "pending")
       ELSE add_stage_event(ws1, "understand", "completed",
                            "Understanding completed: " \o v.status,
                            Data("confidence", <<>>, v.confidence))

\* _execute_understand_stage's except clause
understand_except(ws, e) ==
    add_stage_event(ws, "understand", "failed", "Understanding stage failed: " \o e.text,
                    Data("error", <<e.text>>, 0))

\* _execute_decide_stage up to the await of fraud_detector.analyze
decide_begin(ws) ==
    add_stage_event(transition_to(ws, "decide", "in_progress"),
                    "decide", "in_progress", "Fraud detection in progress", NoData)

\* A Decide stage that announces document analysis where policy verification starts
decide_after_fraud_misannounced(ws, f) ==
    add_stage_event(
        [ws EXCEPT !.workflow_data.keys = @ \cup {"similar_claims", "fraud"},
                   !.workflow_data.fraud =
                       [status |-> f.status, confidence |-> f.confidence,
                        risk_score |-> f.fraud_risk]],
        "decide", "in_progress", "Document analysis in progress", NoData)

\* _execute_decide_stage from the fraud verdict to the await of policy_checker.verify
decide_after_fraud(ws, f) ==
    add_stage_event(
        [ws EXCEPT !.workflow_data.keys = @ \cup {"similar_claims", "fraud"},
                   !.workflow_data.fraud =
                       [status |-> f.status, confidence |-> f.confidence,
                        risk_score |-> f.fraud_risk]],
        "decide", "in_progress", "Policy verification in progress", NoData)

\* _execute_decide_stage from the policy verdict to the document_analyzer.analyze call
decide_after_policy(ws, p) ==
    add_stage_event(
        [ws EXCEPT !.workflow_data.keys = @ \cup {"policy"},
                   !.workflow_data.policy =
                       [status |-> p.status, confidence |-> p.confidence, risk_score |-> 0]],
        "decide", "in_progress", "Document analysis in progress", NoData)

\* _execute_decide_stage from the document verdict to the await of decision_maker.decide
decide_after_document(ws, d) ==
    add_stage_event(
        [ws EXCEPT !.workflow_data.keys = @ \cup {"documents"},
                   !.workflow_data.documents =
                       [status |-> d.status, confidence |-> d.confidence, risk_score |-> 0]],
        "decide", "in_progress", "Final decision making in progress", NoData)

\* _execute_decide_stage after decision_maker.decide returned
decide_end(ws, analysis) ==
    add_stage_event(
        [ws EXCEPT !.workflow_data.keys = @ \cup {"decision"},
                   !.workflow_data.decision =
                       [status |-> analysis.overall_status,
                        confidence |-> analysis.final_decision.confidence,
                        risk_score |-> analysis.fraud_result.fraud_risk]],
        "decide", "completed", "Decision completed: " \o analysis.overall_status,
        Data("confidence", <<analysis.overall_status>>, analysis.final_decision.confidence))

\* DecisionMakerAgent.decide: status_map.get(result.status, DECISION_PENDING)
status_map(status) ==
    CASE status = "approved" -> "approved"
      [] status = "rejected" -> "rejected"
      [] status = "needs_info" -> "needs_info"
      [] status = "passed" -> "approved"
      [] OTHER -> "decision_pending"

\* _generate_claimant_message: the template chosen by overall_status
generate_claimant_message(analysis) ==
    CASE analysis.overall_status = "approved" -> "approved"
      [] analysis.overall_status = "rejected" -> "rejected"
      [] OTHER -> "under_review"

\* _execute_deliver_stage; generation_raises: artifact generation throws
execute_deliver_stage(ws, analysis, generation_raises) ==
    LET ws1 == transition_to(ws, "deliver", "in_progress")
        siu == analysis.fraud_result.status /= "None"
               /\ analysis.fraud_result.fraud_risk >= SiuThreshold
    IN IF generation_raises
       THEN [raised |-> TRUE, ws |-> ws1]
       ELSE [raised |-> FALSE,
             ws |-> add_stage_event(
                      [ws1 EXCEPT !.workflow_data.keys = @ \cup {"deliver"},
                                  !.workflow_data.deliver =
                                      [final_status |-> analysis.overall_status,
                                       claimant_message |-> generate_claimant_message(analysis),
                                       siu_alert |-> siu]],
                      "deliver", "completed",
                      "Delivery completed: " \o analysis.overall_status,
                      Data("final_status", <<analysis.overall_status>>, 0))]

---------------------------------------------------------------------------
(* Inputs: submissions, the collaborators' verdicts, review decisions *)

Submissions ==
    {ClaimSubmission(5, 500, 10, 25),     \* passes Intake
     ClaimSubmission(2, 500, 0, 25)}      \* short policy number, empty incident date

ValidationVerdicts == {AgentResult("passed", 950, 0), AgentResult("failed", 300, 0)}

\* FraudDetectorAgent._parse_response: metadata fraud_risk is the parsed confidence
FraudVerdicts == {AgentResult("passed", 100, 100)}

PolicyVerdicts == {AgentResult("passed", 950, 0)}

DocumentVerdicts == {AgentResult("passed", 950, 0)}

FinalDecisions == {AgentResult("approved", 950, 0), AgentResult("rejected", 400, 0)}

\* ReviewDecisionRequest: the action and the payload the action reads
ReviewDecisionRequest(action, modified_payout, escalation_reason, requested_documents) ==
    [action |-> action, modified_payout |-> modified_payout,
     escalation_reason |-> escalation_reason,
     requested_documents |-> requested_documents]

Decisions ==
    {ReviewDecisionRequest("approve", 0, "", <<>>),
     ReviewDecisionRequest("modify", 0, "", <<>>),
     ReviewDecisionRequest("modify", 1000, "", <<>>),
     ReviewDecisionRequest("escalate", 0, "", <<>>),
     ReviewDecisionRequest("escalate", 0, "complex case", <<>>),
     ReviewDecisionRequest("request_info", 0, "", <<>>),
     ReviewDecisionRequest("request_info", 0, "", <<"police_report">>)}

---------------------------------------------------------------------------
(* The state *)

\* The frame of one execute_workflow call: where it is suspended, its locals,
\* the collaborator calls it has made, the statuses it has reported through its
\* status callback, and how it ended.
IdleFrame ==
    [pc |-> "idle", claim_id |-> "", validation_result |-> None,
     fraud_result |-> None, policy_result |-> None, document_result |-> None,
     invoked |-> <<>>, reported |-> <<>>, result |-> "none"]

\* Claim: status SUBMITTED, no analysis
Claim == [status |-> "submitted", analysis |-> NoAnalysis]

\* The status callback handed to execute_workflow: it stores the status on the claim
update_claim_status(db, c, new_status) == [db EXCEPT ![c].status = new_status]

\* OpusWorkflowExecutor._get_workflow_state: get or create
get_or_create_workflow_state(c) ==
    IF c \in DOMAIN workflow_states THEN workflow_states[c] ELSE WorkflowState

\* OpusWorkflowExecutor.get_workflow_state: dict.get, None for an unknown claim
HasWorkflowState(c) == c \in DOMAIN workflow_states

\* An inspection call written through _get_workflow_state: it creates the state
get_workflow_state_creating(store, c) ==
    LET created == [x \in DOMAIN store \cup {c} |->
                       IF x \in DOMAIN store THEN store[x] ELSE WorkflowState]
    IN [store |-> created, found |-> TRUE, state |-> created[c]]

\* OpusWorkflowExecutor.get_workflow_state(claim_id) on the dict store: the
\* store after the call, whether a state was found (not None), and that state
get_workflow_state(store, c) ==
    [store |-> store, found |-> c \in DOMAIN store,
     state |-> IF c \in DOMAIN store THEN store[c] ELSE WorkflowState]

\* OpusWorkflowExecutor.get_workflow_history(claim_id): the state's own
\* stage_history list, or a new empty list when there is no state
get_workflow_history(store, c) ==
    LET got == get_workflow_state(store, c)
    IN [store |-> got.store, found |-> got.found,
        history |-> IF got.found THEN got.state.stage_history ELSE <<>>]

\* A store in which every claim_id names the same WorkflowState object
StoreState_shared(c, ws) ==
    workflow_states' = [x \in DOMAIN workflow_states \cup {c} |-> ws]

\* workflow_states[c] = ws
StoreState(c, ws) ==
    workflow_states' = [x \in DOMAIN workflow_states \cup {c} |->
                           IF x = c THEN ws ELSE workflow_states[x]]

NoGate == [applied |-> FALSE, analysis |-> NoAnalysis, requires_review |-> FALSE,
           review_reason |-> NoReason]

\* No run of Intake yet
NoIntakeCall ==
    [applied |-> FALSE, submission |-> ClaimSubmission(0, 0, 0, 0), raised |-> FALSE,
     error |-> "", ws |-> WorkflowState]

\* No response parsed yet
NoParse ==
    [applied |-> FALSE, agent |-> "",
     response |-> [status |-> "", matched |-> FALSE, wellformed |-> FALSE, value |-> 0],
     raised |-> FALSE, error |-> "", result |-> None]

\* No inspection call yet
NoObservation ==
    [calls |-> 0, call |-> "", claim_id |-> "", found |-> FALSE, state |-> WorkflowState,
     history |-> <<>>, stale |-> TRUE, repeated |-> FALSE]

\* The single-operation variables at rest
ProbesIdle ==
    /\ gate = NoGate
    /\ intake_call = NoIntakeCall
    /\ parsed = NoParse
    /\ now = 0
    /\ stamps = <<>>
    /\ observed = NoObservation

\* The executor and the API layer right after construction
Constructed ==
    /\ workflow_states = <<>>
    /\ claims_db = <<>>
    /\ audit_logs = <<>>
    /\ tasks = [t \in Tasks |-> IdleFrame]
    /\ started = 0

Init ==
    /\ Constructed
    /\ accepts_claim_id \in BOOLEAN
    /\ ProbesIdle

---------------------------------------------------------------------------
(* The API layer *)

\* submit_claim: a new Claim record with status SUBMITTED
SubmitClaim(c) ==
    /\ c \notin DOMAIN claims_db
    /\ c = "CLM-B" => "CLM-A" \in DOMAIN claims_db
    /\ claims_db' = [x \in DOMAIN claims_db \cup {c} |->
                        IF x = c THEN Claim ELSE claims_db[x]]
    /\ UNCHANGED <<workflow_states, audit_logs, tasks, accepts_claim_id, started, probes>>

---------------------------------------------------------------------------
(* execute_workflow *)

\* The frame of a call that has ended: its locals are gone
Ended(c, result) == [IdleFrame EXCEPT !.claim_id = c, !.result = result]

\* The task ends by raising: the except clause of execute_workflow runs
Raise(t, c, ws, e) ==
    /\ StoreState(c, handle_exception(ws, e))
    /\ tasks' = [tasks EXCEPT ![t] = Ended(c, "raised")]

\* The call, Intake, and Understand up to the await of the validator
ExecStart(t, c, sub) ==
    /\ tasks[t].pc = "idle"
    /\ \A u \in Tasks : u < t => tasks[u].pc /= "idle"
    /\ started < MaxExecutions
    /\ c \in DOMAIN claims_db
    /\ started' = started + 1
    /\ LET intake == execute_intake_stage(sub, get_or_create_workflow_state(c))
       IN IF intake.raised
          THEN /\ StoreState(c, handle_exception(intake.ws,
                                Exception("ValueError", intake.error)))
               /\ tasks' = [tasks EXCEPT ![t] = Ended(c, "raised")]
               /\ UNCHANGED claims_db
          ELSE /\ StoreState(c, understand_begin(intake.ws))
               /\ claims_db' = update_claim_status(claims_db, c, "validating")
               /\ tasks' = [tasks EXCEPT ![t] = [IdleFrame EXCEPT !.pc = "validate",
                                                                  !.claim_id = c,
                                                                  !.invoked = <<"validator">>,
                                                                  !.reported = <<"validating">>]]
    /\ UNCHANGED <<audit_logs, accepts_claim_id, probes>>

\* validator.validate returns v: the rest of Understand, then Decide up to the
\* await of the fraud detector (the similarity lookup does not suspend)
ValidateReturns(t, v) ==
    LET c == tasks[t].claim_id
        ws1 == understand_end(workflow_states[c], v)
        db1 == IF v.status = "failed"
               THEN update_claim_status(claims_db, c, "review_required")
               ELSE claims_db
    IN /\ tasks[t].pc = "validate"
       /\ StoreState(c, decide_begin(ws1))
       /\ claims_db' = update_claim_status(db1, c, "fraud_check")
       /\ tasks' = [tasks EXCEPT ![t].pc = "fraud",
                                 ![t].validation_result = v,
                                 ![t].invoked = @ \o <<"similarity", "fraud_detector">>,
                                 ![t].reported = @ \o (IF v.status = "failed"
                                                       THEN <<"review_required">> ELSE <<>>)
                                                  \o <<"fraud_check">>]
       /\ UNCHANGED <<audit_logs, accepts_claim_id, started, probes>>

\* fraud_detector.analyze returns f
FraudReturns(t, f) ==
    LET c == tasks[t].claim_id
    IN /\ tasks[t].pc = "fraud"
       /\ StoreState(c, decide_after_fraud(workflow_states[c], f))
       /\ claims_db' = update_claim_status(claims_db, c, "policy_check")
       /\ tasks' = [tasks EXCEPT ![t].pc = "policy",
                                 ![t].fraud_result = f,
                                 ![t].invoked = Append(@, "policy_checker"),
                                 ![t].reported = Append(@, "policy_check")]
       /\ UNCHANGED <<audit_logs, accepts_claim_id, started, probes>>

\* policy_checker.verify returns p; document_analyzer.analyze(claim_data,
\* claim_id=claim_id) is then called, and raises TypeError at once when the
\* analyzer's signature has no claim_id parameter
PolicyReturns(t, p) ==
    LET c == tasks[t].claim_id
        ws1 == decide_after_policy(workflow_states[c], p)
    IN /\ tasks[t].pc = "policy"
       /\ claims_db' = update_claim_status(claims_db, c, "document_analysis")
       /\ IF accepts_claim_id
          THEN /\ StoreState(c, ws1)
               /\ tasks' = [tasks EXCEPT ![t].pc = "document",
                                         ![t].policy_result = p,
                                         ![t].invoked = Append(@, "document_analyzer"),
                                         ![t].reported = Append(@, "document_analysis")]
          ELSE /\ StoreState(c, handle_exception(ws1,
                      Exception("TypeError", "unexpected keyword argument claim_id")))
               /\ tasks' = [tasks EXCEPT ![t] = Ended(c, "raised")]
       /\ UNCHANGED <<audit_logs, accepts_claim_id, started, probes>>

\* document_analyzer.analyze returns d
DocumentReturns(t, d) ==
    LET c == tasks[t].claim_id
    IN /\ tasks[t].pc = "document"
       /\ StoreState(c, decide_after_document(workflow_states[c], d))
       /\ claims_db' = update_claim_status(claims_db, c, "decision_pending")
       /\ tasks' = [tasks EXCEPT ![t].pc = "decision",
                                 ![t].document_result = d,
                                 ![t].invoked = Append(@, "decision_maker"),
                                 ![t].reported = Append(@, "decision_pending")]
       /\ UNCHANGED <<audit_logs, accepts_claim_id, started, probes>>

\* decision_maker.decide returns fd (its metadata filled from the other
\* verdicts): the rest of Decide, the review gate, then Review(pending) or
\* Deliver, the closing Completed event, and the return to the caller, which
\* stores the analysis on the claim.
DecideReturns(t, fd, generation_raises) ==
    LET c == tasks[t].claim_id
        f == tasks[t]
        final_decision == [fd EXCEPT !.fraud_risk = f.fraud_result.confidence]
        analysis == ClaimAnalysis(f.validation_result, f.fraud_result, f.policy_result,
                                  f.document_result, final_decision, status_map(fd.status))
        checked == check_review_required(analysis, decide_end(workflow_states[c], analysis))
        reason == checked.ws.workflow_data.review_reason
        deliver == execute_deliver_stage(checked.ws, analysis, generation_raises)
        completed(ws) == add_stage_event(ws, "completed", "completed",
                                         "Workflow completed successfully", NoData)
        returned(db) == [db EXCEPT ![c].analysis = analysis]
    IN /\ tasks[t].pc = "decision"
       /\ IF checked.requires_review
          THEN /\ StoreState(c, completed(
                      add_stage_event(transition_to(checked.ws, "review", "pending"),
                                      "review", "pending", "Claim requires human review",
                                      Data("review_reason", <<reason.kind>>, reason.shown))))
               /\ claims_db' = returned(update_claim_status(claims_db, c, "review_required"))
               /\ tasks' = [tasks EXCEPT ![t] = Ended(c, "returned")]
          ELSE IF deliver.raised
          THEN /\ StoreState(c, handle_exception(deliver.ws,
                      Exception("ValueError", "artifact generation failed")))
               /\ claims_db' = claims_db
               /\ tasks' = [tasks EXCEPT ![t] = Ended(c, "raised")]
          ELSE /\ StoreState(c, completed(deliver.ws))
               /\ claims_db' = returned(update_claim_status(claims_db, c,
                                                            analysis.overall_status))
               /\ tasks' = [tasks EXCEPT ![t] = Ended(c, "returned")]
       /\ UNCHANGED <<audit_logs, accepts_claim_id, started, probes>>

\* The awaited collaborator call raises. Understand records a Failed event in
\* its own except clause before the executor's; Decide has none.
CollaboratorRaises(t) ==
    LET c == tasks[t].claim_id
        e == Exception("RuntimeError", "collaborator call failed")
        ws == workflow_states[c]
    IN /\ tasks[t].pc \in {"validate", "fraud", "policy", "document", "decision"}
       /\ Raise(t, c, IF tasks[t].pc = "validate" THEN understand_except(ws, e) ELSE ws, e)
       /\ UNCHANGED <<claims_db, audit_logs, accepts_claim_id, started, probes>>

---------------------------------------------------------------------------
(* submit_review_decision_endpoint *)

\* The fields of the pydantic model Claim. Assigning any other attribute of a
\* Claim (claim.metadata = {}) raises ValueError.
ClaimFields == {"claim_id", "submission", "status", "created_at", "updated_at", "analysis"}

\* The Deliver stage as the endpoint runs it: an exception is absorbed and a
\* Deliver/Completed event carrying the error is appended instead
review_deliver(ws, claim, generation_raises) ==
    LET deliver == execute_deliver_stage(ws, claim.analysis, generation_raises)
    IN IF claim.analysis.overall_status = "None" THEN ws
       ELSE IF deliver.raised
       THEN add_stage_event(deliver.ws, "deliver", "completed",
                            "Delivery stage completed (with error)",
                            Data("final_status", <<claim.status>>, 0))
       ELSE deliver.ws

\* An escalate branch that hands the claim on to the Deliver stage
review_escalated_delivering(ws, decision) ==
    add_stage_event(transition_to(ws, "deliver", "in_progress"), "review", "completed",
                    "Review completed - Escalated",
                    Data("action", <<"escalate", decision.escalation_reason>>, 0))

\* The escalate branch's work on the workflow state: one Review/Completed event,
\* no transition and no stage runner
review_escalated(ws, decision) ==
    add_stage_event(ws, "review", "completed", "Review completed - Escalated",
                    Data("action", <<"escalate", decision.escalation_reason>>, 0))

\* The audit entry appended for an accepted decision
AuditEntry(c, decision, new_status, next_stage) ==
    [claim_id |-> c, action |-> decision.action,
     previous_status |-> "review_required", new_status |-> new_status,
     next_stage |-> next_stage,
     workflow_stage |-> IF c \in DOMAIN workflow_states'
                        THEN workflow_states'[c].current_stage ELSE "None"]

\* An accepted decision: the claim's new status, the workflow state the branch
\* leaves (when the claim has one) and the audit entry
Accept(c, decision, new_status, next_stage, ws) ==
    /\ Len(audit_logs) < MaxDecisions
    /\ claims_db' = update_claim_status(claims_db, c, new_status)
    /\ IF HasWorkflowState(c) THEN StoreState(c, ws) ELSE UNCHANGED workflow_states
    /\ audit_logs' = Append(audit_logs, AuditEntry(c, decision, new_status, next_stage))

\* The decision is refused with an HTTP error before anything is written
Refuse == UNCHANGED <<claims_db, workflow_states, audit_logs>>

\* The branch sets claim.status and then fails on claim.metadata = {}: the
\* ValueError leaves the endpoint with only the claim's status written
FailOnMetadata(c, new_status) ==
    /\ claims_db' = update_claim_status(claims_db, c, new_status)
    /\ UNCHANGED <<workflow_states, audit_logs>>

SubmitReviewDecision(c, decision, generation_raises) ==
    /\ generation_raises => decision.action \in {"approve", "modify"}
    /\ IF c \notin DOMAIN claims_db THEN Refuse
       ELSE IF claims_db[c].status /= "review_required" THEN Refuse
       ELSE LET ws == get_or_create_workflow_state(c)
                claim == claims_db[c]
            IN CASE decision.action = "approve" ->
                      Accept(c, decision, "approved", "deliver",
                             review_deliver(
                                 add_stage_event(transition_to(ws, "deliver", "in_progress"),
                                                 "review", "completed",
                                                 "Review completed - Approved",
                                                 Data("action", <<"approve">>, 0)),
                                 [claim EXCEPT !.status = "approved"], generation_raises))
                 [] decision.action = "modify" ->
                      IF decision.modified_payout = 0 THEN Refuse
                      ELSE IF "metadata" \notin ClaimFields THEN FailOnMetadata(c, "approved")
                      ELSE Accept(c, decision, "approved", "deliver",
                             review_deliver(
                                 add_stage_event(transition_to(ws, "deliver", "in_progress"),
                                                 "review", "completed",
                                                 "Review completed - Modified",
                                                 Data("action", <<"modify">>,
                                                      decision.modified_payout)),
                                 [claim EXCEPT !.status = "approved"], generation_raises))
                 [] decision.action = "escalate" ->
                      IF decision.escalation_reason = "" THEN Refuse
                      ELSE Accept(c, decision, "escalated", "senior_review",
                                  review_escalated(ws, decision))
                 [] decision.action = "request_info" ->
                      IF decision.requested_documents = <<>> THEN Refuse
                      ELSE IF "metadata" \notin ClaimFields THEN FailOnMetadata(c, "needs_info")
                      ELSE Accept(c, decision, "needs_info", "intake",
                             add_stage_event(transition_to(ws, "intake", "pending"),
                                             "review", "completed",
                                             "Review completed - Info Requested",
                                             Data("action", <<"request_info">>
                                                  \o decision.requested_documents, 0)))
    /\ UNCHANGED <<tasks, accepts_claim_id, started, probes>>

---------------------------------------------------------------------------
(* The specification of the executor and the review endpoint *)

Next ==
    \/ \E c \in ClaimIds : SubmitClaim(c)
    \/ \E t \in Tasks, c \in ClaimIds, sub \in Submissions : ExecStart(t, c, sub)
    \/ \E t \in Tasks, v \in ValidationVerdicts : ValidateReturns(t, v)
    \/ \E t \in Tasks, f \in FraudVerdicts : FraudReturns(t, f)
    \/ \E t \in Tasks, p \in PolicyVerdicts : PolicyReturns(t, p)
    \/ \E t \in Tasks, d \in DocumentVerdicts : DocumentReturns(t, d)
    \/ \E t \in Tasks, fd \in FinalDecisions, g \in BOOLEAN : DecideReturns(t, fd, g)
    \/ \E t \in Tasks : CollaboratorRaises(t)
    \/ \E c \in ClaimIds, d \in Decisions, g \in BOOLEAN : SubmitReviewDecision(c, d, g)

Spec == Init /\ [][Next]_vars

---------------------------------------------------------------------------
(* The review gate alone, applied to every ClaimAnalysis of a bounded set *)

GateAnalyses ==
    {ClaimAnalysis(v, f, None, None, fd, "approved") :
        v \in {None, AgentResult("passed", 950, 0), AgentResult("warning", 500, 0),
               AgentResult("failed", 300, 0)},
        f \in {None, AgentResult("passed", 100, 100), AgentResult("passed", 900, 900),
               AgentResult("warning", 500, 500), AgentResult("warning", 799, 799),
               AgentResult("warning", 800, 800), AgentResult("warning", 950, 950)},
        fd \in {None, AgentResult("approved", 0, 0), AgentResult("approved", 400, 0),
                AgentResult("approved", 699, 0), AgentResult("approved", 700, 0),
                AgentResult("approved", 950, 0)}}

GateInit ==
    /\ Constructed
    /\ accepts_claim_id = FALSE
    /\ gate \in {[NoGate EXCEPT !.analysis = a] : a \in GateAnalyses}
    /\ intake_call = NoIntakeCall
    /\ parsed = NoParse
    /\ now = 0
    /\ stamps = <<>>
    /\ observed = NoObservation

\* _check_review_required(analysis, workflow_state) on a fresh WorkflowState
GateApply ==
    /\ ~gate.applied
    /\ LET checked == check_review_required(gate.analysis, WorkflowState)
       IN gate' = [gate EXCEPT !.applied = TRUE,
                               !.requires_review = checked.requires_review,
                               !.review_reason = checked.ws.workflow_data.review_reason]
    /\ UNCHANGED <<workflow_states, claims_db, audit_logs, tasks, accepts_claim_id, started,
                   intake_call, parsed, now, stamps, observed>>

GateNext == GateApply

GateSpec == GateInit /\ [][GateNext]_vars

---------------------------------------------------------------------------
(* WorkflowState's own operations and the executor's inspection calls, with the
   clock that stamps the stage events *)

HistoryInit ==
    /\ Constructed
    /\ accepts_claim_id = FALSE
    /\ gate = NoGate
    /\ intake_call = NoIntakeCall
    /\ parsed = NoParse
    /\ now \in 0..MaxClock
    /\ stamps = <<>>
    /\ observed = NoObservation

\* The events of every stage_history together
EventCount ==
    LET RECURSIVE Sum(_)
        Sum(S) == IF S = {} THEN 0
                  ELSE LET c == CHOOSE x \in S : TRUE
                       IN Len(workflow_states[c].stage_history) + Sum(S \ {c})
    IN Sum(DOMAIN workflow_states)

\* "timestamp": datetime.now().isoformat() of each event the operation appended
\* to claim c's history. The ISO strings of naive datetimes order as the
\* readings do, so a timestamp is kept as the reading.
Stamp(c, store) ==
    stamps' = [x \in DOMAIN store |->
                  LET old == IF x \in DOMAIN stamps THEN stamps[x] ELSE <<>>
                  IN IF x = c
                     THEN old \o [i \in 1..(Len(store[x].stage_history) - Len(old)) |-> now]
                     ELSE old]

\* datetime.now() is the local wall clock: it moves on
ClockAdvances(t) ==
    /\ t > now
    /\ now' = t
    /\ UNCHANGED <<workflow_states, claims_db, audit_logs, tasks, accepts_claim_id, started,
                   gate, intake_call, parsed, stamps, observed>>

\* and it is set back when the host's clock is (the end of daylight saving time
\* for a naive local datetime, a step correction of the system time)
ClockSetBack(t) ==
    /\ t < now
    /\ now' = t
    /\ UNCHANGED <<workflow_states, claims_db, audit_logs, tasks, accepts_claim_id, started,
                   gate, intake_call, parsed, stamps, observed>>

\* _get_workflow_state(claim_id) for a claim without a state: WorkflowState(claim_id)
CreateState(c) ==
    /\ c \notin DOMAIN workflow_states
    /\ StoreState(c, WorkflowState)
    /\ Stamp(c, workflow_states')
    /\ observed' = [observed EXCEPT !.stale = TRUE]
    /\ UNCHANGED <<claims_db, audit_logs, tasks, accepts_claim_id, started,
                   gate, intake_call, parsed, now>>

\* workflow_state.add_stage_event(stage, status, message)
AddStageEvent(c, stage, status) ==
    /\ c \in DOMAIN workflow_states
    /\ EventCount < MaxEvents
    /\ StoreState(c, add_stage_event(workflow_states[c], stage, status, "event", NoData))
    /\ Stamp(c, workflow_states')
    /\ observed' = [observed EXCEPT !.stale = TRUE]
    /\ UNCHANGED <<claims_db, audit_logs, tasks, accepts_claim_id, started,
                   gate, intake_call, parsed, now>>

\* workflow_state.transition_to(stage, status)
TransitionTo(c, stage, status) ==
    /\ c \in DOMAIN workflow_states
    /\ EventCount < MaxEvents
    /\ StoreState(c, transition_to(workflow_states[c], stage, status))
    /\ Stamp(c, workflow_states')
    /\ observed' = [observed EXCEPT !.stale = TRUE]
    /\ UNCHANGED <<claims_db, audit_logs, tasks, accepts_claim_id, started,
                   gate, intake_call, parsed, now>>

\* The record of an inspection call: what it returned, and whether it repeats
\* the call before it with no other operation in between
Observation(call, c, found, state, history) ==
    [calls |-> observed.calls + 1, call |-> call, claim_id |-> c, found |-> found,
     state |-> state, history |-> history, stale |-> FALSE,
     repeated |-> ~observed.stale /\ observed.call = call /\ observed.claim_id = c]

\* executor.get_workflow_state(c)
GetWorkflowState(c) ==
    LET got == get_workflow_state(workflow_states, c)
    IN /\ observed.calls < MaxReads
       /\ workflow_states' = got.store
       /\ Stamp(c, got.store)
       /\ observed' = Observation("get_workflow_state", c, got.found, got.state, <<>>)
       /\ UNCHANGED <<claims_db, audit_logs, tasks, accepts_claim_id, started,
                      gate, intake_call, parsed, now>>

\* executor.get_workflow_history(c)
GetWorkflowHistory(c) ==
    LET got == get_workflow_history(workflow_states, c)
    IN /\ observed.calls < MaxReads
       /\ workflow_states' = got.store
       /\ Stamp(c, got.store)
       /\ observed' = Observation("get_workflow_history", c, got.found, WorkflowState,
                                  got.history)
       /\ UNCHANGED <<claims_db, audit_logs, tasks, accepts_claim_id, started,
                      gate, intake_call, parsed, now>>

HistoryNext ==
    \/ \E t \in 0..MaxClock : ClockAdvances(t)
    \/ \E t \in 0..MaxClock : ClockSetBack(t)
    \/ \E c \in ClaimIds : CreateState(c)
    \/ \E c \in ClaimIds : AddStageEvent(c, "understand", "completed")
    \/ \E c \in ClaimIds : TransitionTo(c, "understand", "in_progress")
    \/ \E c \in ClaimIds : GetWorkflowState(c)
    \/ \E c \in ClaimIds : GetWorkflowHistory(c)

HistorySpec == HistoryInit /\ [][HistoryNext]_vars

---------------------------------------------------------------------------
(* Intake alone: execute_workflow on a fresh state, up to the end of Intake *)

\* Submissions as objects: a field can hold any value once it is assigned
\* (assignment to a ClaimSubmission is not validated)
IntakeSubmissions ==
    {ClaimSubmission(p, a, d, t) :
        p \in {0, 2, 3, 5}, a \in {-100, 0, 500}, d \in {0, 10}, t \in {0, 5, 19, 20, 25}}

IntakeInit ==
    /\ Constructed
    /\ accepts_claim_id = FALSE
    /\ gate = NoGate
    /\ intake_call \in {[NoIntakeCall EXCEPT !.submission = sub] : sub \in IntakeSubmissions}
    /\ parsed = NoParse
    /\ now = 0
    /\ stamps = <<>>
    /\ observed = NoObservation

\* execute_workflow(submission, claim_id) for a new claim, to the end of Intake:
\* the ValueError of a failed Intake goes through the executor's except clause
IntakeApply ==
    /\ ~intake_call.applied
    /\ LET ran == execute_intake_stage(intake_call.submission, WorkflowState)
       IN intake_call' =
              [intake_call EXCEPT
                  !.applied = TRUE,
                  !.raised = ran.raised,
                  !.error = ran.error,
                  !.ws = IF ran.raised
                         THEN handle_exception(ran.ws, Exception("ValueError", ran.error))
                         ELSE ran.ws]
    /\ UNCHANGED <<workflow_states, claims_db, audit_logs, tasks, accepts_claim_id, started,
                   gate, parsed, now, stamps, observed>>

IntakeNext == IntakeApply

IntakeSpec == IntakeInit /\ [][IntakeNext]_vars

---------------------------------------------------------------------------
(* The collaborators' parsers: one response parsed into an AgentResult *)

Agents == {"validator", "fraud_detector", "policy_checker", "document_analyzer",
           "decision_maker"}

\* What the parser's regular expressions find in a response: the word after
\* STATUS: ("" when there is none) and the run of digits and periods after
\* CONFIDENCE: (matched), which float() accepts or not (wellformed), with its
\* value in thousandths. The pattern [\d.]+ takes no sign.
Response(status, matched, wellformed, value) ==
    [status |-> status, matched |-> matched, wellformed |-> wellformed, value |-> value]

Responses ==
    {Response(st, TRUE, TRUE, v) :
        st \in {"", "PASSED", "failed"}, v \in {0, 500, 850, 1000, 1001, 1500, 95000}}
    \cup {Response(st, FALSE, FALSE, 0) : st \in {"", "PASSED", "failed"}}
    \cup {Response(st, TRUE, FALSE, 0) : st \in {"", "PASSED", "failed"}}

\* str.lower() on the status words used
Lower(word) ==
    CASE word = "PASSED" -> "passed"
      [] OTHER -> word

\* <Agent>._parse_response(response): the AgentResult it constructs, or the
\* exception that float() or the model's validation of confidence raises
parse_response(agent, response) ==
    LET status == IF response.status /= "" THEN Lower(response.status)
                  ELSE IF agent = "decision_maker" THEN "needs_info" ELSE "warning"
        confidence == IF response.matched THEN response.value ELSE DefaultConfidence
    IN IF response.matched /\ ~response.wellformed
       THEN [raised |-> TRUE, error |-> "ValueError", result |-> None]
       ELSE IF confidence < 0 \/ confidence > MaxConfidence
       THEN [raised |-> TRUE, error |-> "ValidationError", result |-> None]
       ELSE [raised |-> FALSE, error |-> "",
             result |-> AgentResult(status, confidence,
                                    IF agent = "fraud_detector" THEN confidence ELSE 0)]

ParseInit ==
    /\ Constructed
    /\ accepts_claim_id = FALSE
    /\ gate = NoGate
    /\ intake_call = NoIntakeCall
    /\ parsed \in {[NoParse EXCEPT !.agent = a, !.response = r] :
                     a \in Agents, r \in Responses}
    /\ now = 0
    /\ stamps = <<>>
    /\ observed = NoObservation

\* agent._parse_response(response.content)
ParseApply ==
    /\ ~parsed.applied
    /\ LET got == parse_response(parsed.agent, parsed.response)
       IN parsed' = [parsed EXCEPT !.applied = TRUE, !.raised = got.raised,
                                   !.error = got.error, !.result = got.result]
    /\ UNCHANGED <<workflow_states, claims_db, audit_logs, tasks, accepts_claim_id, started,
                   gate, intake_call, now, stamps, observed>>

ParseNext == ParseApply

ParseSpec == ParseInit /\ [][ParseNext]_vars

---------------------------------------------------------------------------
(* Vocabulary of the properties *)

\* The events a step appended to claim c's stage_history
Appended(c) ==
    IF c \notin DOMAIN workflow_states'
    THEN <<>>
    ELSE IF c \notin DOMAIN workflow_states
    THEN workflow_states'[c].stage_history
    ELSE SubSeq(workflow_states'[c].stage_history,
                Len(workflow_states[c].stage_history) + 1,
                Len(workflow_states'[c].stage_history))

\* Some event of the sequence satisfies P
Some(events, P(_)) == \E i \in 1..Len(events) : P(events[i])

\* Task t's execute_workflow call returns normally in this step
Returns(t) ==
    tasks[t].pc = "decision" /\ tasks'[t].pc = "idle" /\ tasks'[t].result = "returned"

\* The events written by transition_to, in order: the stages current_stage took
Transitions(history) ==
    SelectSeq(history, LAMBDA e : e.message = "Transitioned to " \o e.stage)

\* The edges of the specified state machine
Edges ==
    {<<"intake", "understand">>, <<"understand", "decide">>, <<"understand", "review">>,
     <<"decide", "review">>, <<"decide", "deliver">>, <<"deliver", "completed">>,
     <<"review", "deliver">>, <<"review", "intake">>}
    \cup {<<s, "error">> : s \in {"intake", "understand", "decide", "review", "deliver",
                                   "completed", "error"}}

DecideCalls == {"similarity", "fraud_detector", "policy_checker", "document_analyzer",
                "decision_maker"}

---------------------------------------------------------------------------
(* Claims *)

\* C1: when the validator's verdict is "failed", the call ends in that step with
\* the workflow in Review/Pending: no Decide collaborator is called and no Decide
\* event is appended.
C1_FailedValidationSkipsDecide ==
    [][\A t \in Tasks :
         LET c == tasks[t].claim_id
         IN (tasks[t].pc = "validate"
             /\ Some(Appended(c), LAMBDA e : e.message = "Claim validation failed"))
            => /\ tasks'[t].pc = "idle"
               /\ tasks'[t].result = "returned"
               /\ \A i \in 1..Len(tasks'[t].invoked) : tasks'[t].invoked[i] \notin DecideCalls
               /\ ~Some(Appended(c), LAMBDA e : e.stage = "decide")
               /\ workflow_states'[c].current_stage = "review"
               /\ workflow_states'[c].stage_status = "pending"]_vars

\* C2: a call that returns with a validation verdict other than failed and a
\* review gate that did not require review leaves current_stage = Completed,
\* with overall_status approved for an approved decision, and appended no Review
\* event.
C2_NoReviewEndsCompleted ==
    [][\A t \in Tasks :
         LET c == tasks[t].claim_id
         IN (Returns(t)
             /\ tasks[t].validation_result.status /= "failed"
             /\ ~workflow_states'[c].workflow_data.review_required)
            => /\ workflow_states'[c].current_stage = "completed"
               /\ claims_db'[c].analysis.final_decision.status = "approved"
                      => claims_db'[c].analysis.overall_status = "approved"
               /\ ~Some(Appended(c), LAMBDA e : e.stage = "review")]_vars

\* C3: a call that returns with final confidence below 0.70 (the other two rules
\* not firing) leaves the workflow in Review/Pending with the reason
\* "Low AI confidence (X < 0.70)"; and an accepted approve or modify decision on
\* a claim held for that reason runs Deliver and leaves the workflow in stage
\* Completed.
C3_LowConfidenceReviewThenCompleted ==
    [][/\ \A t \in Tasks :
            LET c == tasks[t].claim_id
                a == claims_db'[c].analysis
            IN (Returns(t)
                /\ a.final_decision.confidence < ConfidenceThreshold
                /\ a.validation_result.status /= "failed"
                /\ a.fraud_result.status /= "warning")
               => /\ workflow_states'[c].current_stage = "review"
                  /\ workflow_states'[c].stage_status = "pending"
                  /\ workflow_states'[c].workflow_data.review_reason =
                         [kind |-> "Low AI confidence",
                          shown |-> Fmt2(a.final_decision.confidence)]
       /\ (Len(audit_logs') = Len(audit_logs) + 1
           /\ audit_logs'[Len(audit_logs')].action \in {"approve", "modify"}
           /\ workflow_states[audit_logs'[Len(audit_logs')].claim_id]
                  .workflow_data.review_reason.kind = "Low AI confidence")
          => LET c == audit_logs'[Len(audit_logs')].claim_id
             IN /\ Some(Appended(c), LAMBDA e : e.stage = "deliver" /\ e.status = "completed")
                /\ workflow_states'[c].current_stage = "completed"]_vars

\* C4: an execute_workflow call made for a claim on which another call is still
\* running is rejected: it leaves that claim's WorkflowState as it was.
C4_RunningClaimRejectsSecondCall ==
    [][\A t \in Tasks :
         LET c == tasks'[t].claim_id
             first_idle == tasks[t].pc = "idle" /\ \A u \in Tasks : u < t => tasks[u].pc /= "idle"
             running == \E w \in Tasks : tasks[w].pc /= "idle" /\ tasks[w].claim_id = c
         IN (started' = started + 1 /\ first_idle /\ running)
            => workflow_states'[c] = workflow_states[c]]_vars

\* C5: every change of current_stage is an edge of the specified state machine.
\* The stages current_stage took are the stages of the transition events.
C5_OnlySpecifiedEdges ==
    \A c \in DOMAIN workflow_states :
        LET stages == <<[stage |-> "intake"]>> \o Transitions(workflow_states[c].stage_history)
        IN \A i \in 1..(Len(stages) - 1) :
               \/ stages[i].stage = stages[i + 1].stage
               \/ <<stages[i].stage, stages[i + 1].stage>> \in Edges

\* C6: a request_info decision with requested documents on a claim in review
\* (the claim goes from review_required to needs_info) sets the workflow to
\* Intake/Pending; and every call that gets to the final synthesis has called
\* each collaborator itself, whatever verdicts an earlier run left.
C6_RequestInfoBackToIntake ==
    [][/\ \A c \in DOMAIN claims_db :
            (tasks' = tasks
             /\ claims_db[c].status = "review_required"
             /\ claims_db'[c].status = "needs_info")
            => /\ c \in DOMAIN workflow_states'
               /\ workflow_states'[c].current_stage = "intake"
               /\ workflow_states'[c].stage_status = "pending"
       /\ \A t \in Tasks :
            tasks'[t].pc = "decision"
            => tasks'[t].invoked = <<"validator", "similarity", "fraud_detector",
                                     "policy_checker", "document_analyzer",
                                     "decision_maker">>]_vars

\* C7: Error is terminal: once a claim's current_stage is Error no step changes it.
C7_ErrorIsTerminal ==
    [][\A c \in DOMAIN workflow_states :
         workflow_states[c].current_stage = "error"
         => /\ workflow_states'[c].current_stage = "error"
            /\ ~Some(Appended(c), LAMBDA e : e.stage /= "error")]_vars

\* C8: the Deliver stage never fails the workflow: a step that enters Deliver
\* also appends a Deliver event with status Completed and does not leave the
\* workflow in Error.
C8_DeliverNeverFails ==
    [][\A c \in DOMAIN workflow_states' :
         Some(Appended(c), LAMBDA e : e.message = "Transitioned to deliver")
         => /\ Some(Appended(c), LAMBDA e : e.stage = "deliver" /\ e.status = "completed")
            /\ ~Some(Appended(c), LAMBDA e : e.stage = "error")
            /\ workflow_states'[c].current_stage /= "error"]_vars

\* The three rules of the review gate as the specification states them
LowConfidence(a) ==
    a.final_decision.status /= "None" /\ a.final_decision.confidence < ConfidenceThreshold

HighFraudRisk(a) ==
    a.fraud_result.status = "warning" /\ a.fraud_result.fraud_risk >= FraudRiskThreshold

ValidationFailed(a) == a.validation_result.status = "failed"

\* C9: the stored review_reason is that of the first rule that fires, in the
\* order low confidence, high fraud risk, validation failed.
C9_FirstFiringRuleGivesReason ==
    gate.applied =>
        gate.review_reason.kind =
            (IF LowConfidence(gate.analysis) THEN "Low AI confidence"
             ELSE IF HighFraudRisk(gate.analysis) THEN "High fraud risk detected"
             ELSE IF ValidationFailed(gate.analysis)
                  THEN "Validation failed - requires manual review"
             ELSE "None")

\* C10: final confidence below 0.70 makes the gate return true with a
\* "Low AI confidence" reason, whatever the fraud and validation verdicts.
C10_LowConfidenceAlwaysReported ==
    (gate.applied /\ LowConfidence(gate.analysis))
    => /\ gate.requires_review
       /\ gate.review_reason.kind = "Low AI confidence"

\* C11: a fraud verdict with status "warning" and fraud_risk >= 0.80, the
\* boundary included, makes the gate return true whatever the final confidence.
C11_HighFraudRiskRequiresReview ==
    (gate.applied /\ HighFraudRisk(gate.analysis)) => gate.requires_review

\* C11 witness: the gate was applied to a warning at exactly 0.80 with a final
\* confidence of 0.95 and no failed validation, and returned true.
C11_Witness ==
    /\ gate.applied
    /\ gate.analysis.fraud_result = AgentResult("warning", 800, 800)
    /\ gate.analysis.final_decision.confidence = 950
    /\ ~ValidationFailed(gate.analysis)
    /\ gate.requires_review

\* C12: the gate returns true exactly when one of the three rules fires, an
\* absent verdict firing none; when it returns false the stored reason is None.
C12_ReviewIffSomeRuleFires ==
    gate.applied =>
        /\ gate.requires_review <=> \/ LowConfidence(gate.analysis)
                                    \/ HighFraudRisk(gate.analysis)
                                    \/ ValidationFailed(gate.analysis)
        /\ ~gate.requires_review => gate.review_reason = NoReason

\* C12 witness: the gate was applied to an analysis with every verdict absent
\* and returned false with no reason.
C12_Witness ==
    /\ gate.applied
    /\ gate.analysis.validation_result = None
    /\ gate.analysis.fraud_result = None
    /\ gate.analysis.final_decision = None
    /\ ~gate.requires_review
    /\ gate.review_reason = NoReason

\* The sequence old is an initial part of the sequence new
IsPrefix(old, new) ==
    Len(old) <= Len(new) /\ \A i \in 1..Len(old) : new[i] = old[i]

NonDecreasing(seq) == \A i \in 1..(Len(seq) - 1) : seq[i] <= seq[i + 1]

\* The stage histories only grow at their end: no state disappears, and each
\* history of before is an initial part of the history of after
AppendOnly ==
    \A c \in DOMAIN workflow_states :
        /\ c \in DOMAIN workflow_states'
        /\ IsPrefix(workflow_states[c].stage_history, workflow_states'[c].stage_history)

\* C13: in every step stage_history only grows at its end (no event is removed,
\* changed or reordered) and the timestamps of the events are non-decreasing in
\* list order.
C13_AppendOnlyMonotoneTimestamps ==
    [][/\ AppendOnly
       /\ \A c \in DOMAIN stamps' : NonDecreasing(stamps'[c])]_vars

\* C19: an inspection call leaves workflow_states as it was (it creates no
\* state for an unknown claim and changes no existing one), returns nothing for
\* a claim without a state, and returns the same as the call before it when
\* that was the same call with no other operation in between.
C19_InspectionReadOnly ==
    [][observed'.calls = observed.calls + 1 =>
         LET c == observed'.claim_id
         IN /\ workflow_states' = workflow_states
            /\ c \notin DOMAIN workflow_states
                   => ~observed'.found /\ observed'.history = <<>>
            /\ c \in DOMAIN workflow_states
                   => /\ observed'.found
                      /\ observed'.call = "get_workflow_state"
                             => observed'.state = workflow_states[c]
                      /\ observed'.call = "get_workflow_history"
                             => observed'.history = workflow_states[c].stage_history
            /\ observed'.repeated
                   => /\ observed'.found = observed.found
                      /\ observed'.state = observed.state
                      /\ observed'.history = observed.history]_vars

\* C19 witness: an inspection call for a claim without a state was repeated
\* and the claim still has no state.
C19_Witness ==
    /\ observed.repeated
    /\ observed.calls = 2
    /\ ~observed.found
    /\ observed.claim_id \notin DOMAIN workflow_states
    /\ workflow_states /= <<>>

\* The Intake rules a submission violates, by the text that reports each
RuleViolations(sub) ==
    {r \in {"Policy number is required", "Claim amount must be positive",
            "Incident date is required", "Description must be at least 20 characters",
            "Policy number format invalid"} :
        \/ r = "Policy number is required" /\ sub.policy_number = 0
        \/ r = "Claim amount must be positive" /\ sub.claim_amount <= 0
        \/ r = "Incident date is required" /\ sub.incident_date = 0
        \/ r = "Description must be at least 20 characters" /\ sub.description < 20
        \/ r = "Policy number format invalid"
              /\ sub.policy_number > 0 /\ sub.policy_number < 3}

\* C14: Intake is exhaustive: a submission that violates some rules yields one
\* Intake failure event whose error list holds every violated rule once, and one
\* raised failure whose message lists them all; a submission violating none
\* yields no failure.
C14_IntakeReportsEveryViolation ==
    intake_call.applied =>
        LET violated == RuleViolations(intake_call.submission)
            failures == SelectSeq(intake_call.ws.stage_history,
                                  LAMBDA e : e.stage = "intake" /\ e.status = "failed")
        IN IF violated = {}
           THEN ~intake_call.raised /\ failures = <<>>
           ELSE /\ intake_call.raised
                /\ Len(failures) = 1
                /\ failures[1].data.key = "errors"
                /\ {failures[1].data.str[i] : i \in 1..Len(failures[1].data.str)} = violated
                /\ Len(failures[1].data.str) = Cardinality(violated)
                /\ intake_call.error =
                       "Intake validation failed: " \o Join(failures[1].data.str)
                /\ failures[1].message = intake_call.error

\* C14 witness: Intake ran on a submission with amount 0 and a 5-character
\* description (policy number and date in order) and raised one failure naming both.
C14_Witness ==
    /\ intake_call.applied
    /\ intake_call.submission = ClaimSubmission(5, 0, 10, 5)
    /\ intake_call.raised
    /\ intake_call.error = "Intake validation failed: Claim amount must be positive, "
                               \o "Description must be at least 20 characters"

\* Task t is the frame the next execute_workflow call takes
FirstIdle(t) ==
    tasks[t].pc = "idle" /\ \A u \in Tasks : u < t => tasks[u].pc /= "idle"

\* Task t's execute_workflow call ends by raising in this step: a suspended call,
\* or a call that starts and fails in Intake
EndsRaising(t) ==
    /\ tasks'[t].pc = "idle"
    /\ tasks'[t].result = "raised"
    /\ \/ tasks[t].pc /= "idle"
       \/ started' = started + 1 /\ FirstIdle(t)

\* The errors list of claim c in the store (empty before the state exists)
ErrorsOf(store, c) == IF c \in DOMAIN store THEN store[c].errors ELSE <<>>

\* C15: a call that ends by raising leaves the claim in Error/Failed with
\* exactly one new entry at the end of WorkflowState.errors, carrying the text of
\* the failure; a call that returns normally leaves errors as it was.
C15_RaiseRecordsOneError ==
    [][\A t \in Tasks :
         LET c == tasks'[t].claim_id
             before == ErrorsOf(workflow_states, c)
             after == ErrorsOf(workflow_states', c)
         IN /\ EndsRaising(t)
               => /\ workflow_states'[c].current_stage = "error"
                  /\ workflow_states'[c].stage_status = "failed"
                  /\ Len(after) = Len(before) + 1
                  /\ IsPrefix(before, after)
                  /\ Some(Appended(c), LAMBDA e : e.stage = "error" /\ e.message =
                             "Workflow failed: " \o after[Len(after)].error)
            /\ Returns(t) => after = before]_vars

\* C15 witness: a call has ended by raising out of a stage after Intake, and the
\* claim is in Error with that one failure in its errors list.
C15_Witness ==
    \E t \in Tasks :
        LET c == tasks[t].claim_id
        IN /\ tasks[t].pc = "idle"
           /\ tasks[t].result = "raised"
           /\ workflow_states[c].current_stage = "error"
           /\ Len(workflow_states[c].errors) = 1
           /\ workflow_states[c].errors[1].error = "collaborator call failed"

\* The place of a reported status in the order of the stages
StageOrder(status) ==
    CASE status = "validating" -> 1
      [] status = "fraud_check" -> 2
      [] status = "policy_check" -> 3
      [] status = "document_analysis" -> 4
      [] status = "decision_pending" -> 5
      [] OTHER -> 6

\* C16: the statuses one execution reports through its callback follow the
\* order of the stages (validating, fraud_check, policy_check,
\* document_analysis, decision_pending, then review_required or the final
\* status): none of an earlier stage comes after one of a later stage, and the
\* call returns with the last one, review_required or the overall status.
C16_StatusesInStageOrder ==
    [][\A t \in Tasks :
         /\ \A i \in 1..(Len(tasks'[t].reported) - 1) :
                StageOrder(tasks'[t].reported[i]) < StageOrder(tasks'[t].reported[i + 1])
         /\ Returns(t)
               => LET c == tasks[t].claim_id
                  IN /\ tasks[t].reported = <<"validating", "fraud_check", "policy_check",
                                              "document_analysis", "decision_pending">>
                     /\ claims_db'[c].status \in
                            {"review_required", claims_db'[c].analysis.overall_status}]_vars

\* C17: a parser given a response whose confidence is a number always
\* constructs a verdict, with the confidence clamped into [0,1]: the value
\* itself when it is in range, 1 when it is above.
C17_ConfidenceClamped ==
    (parsed.applied /\ parsed.response.matched /\ parsed.response.wellformed)
    => /\ ~parsed.raised
       /\ parsed.result.confidence =
              (IF parsed.response.value > MaxConfidence THEN MaxConfidence
               ELSE parsed.response.value)

\* The review endpoint handles a decision on claim c in this step: the claim
\* leaves review_required without any execute_workflow call moving
DecisionHandled(c) ==
    /\ tasks' = tasks
    /\ c \in DOMAIN claims_db
    /\ claims_db[c].status = "review_required"
    /\ claims_db'[c].status /= "review_required"

\* C18: what a caller does to the state get_workflow_state returned does not
\* reach the executor's own stage_history: the review endpoint, which appends
\* its events to the state it was handed, leaves the stage_history the executor
\* holds for the claim as it was.
C18_ReturnedStateIsACopy ==
    [][\A c \in DOMAIN workflow_states :
         DecisionHandled(c)
         => workflow_states'[c].stage_history = workflow_states[c].stage_history]_vars

\* C20: an accepted escalate decision reports next_stage senior_review, runs no
\* stage (no transition, no Deliver output, no execute_workflow call moves) and
\* leaves current_stage and its status as they were; it only appends its
\* Review/Completed event.
C20_EscalateRunsNoStage ==
    [][(Len(audit_logs') = Len(audit_logs) + 1
        /\ audit_logs'[Len(audit_logs')].action = "escalate")
       => LET entry == audit_logs'[Len(audit_logs')]
              c == entry.claim_id
          IN /\ entry.next_stage = "senior_review"
             /\ entry.new_status = "escalated"
             /\ claims_db'[c].status = "escalated"
             /\ tasks' = tasks
             /\ c \in DOMAIN workflow_states
                   => /\ workflow_states'[c].current_stage = workflow_states[c].current_stage
                      /\ workflow_states'[c].stage_status = workflow_states[c].stage_status
                      /\ workflow_states'[c].workflow_data = workflow_states[c].workflow_data
                      /\ Len(Appended(c)) = 1
                      /\ Appended(c)[1].stage = "review"
                      /\ Appended(c)[1].status = "completed"
                      /\ ~Some(Appended(c), LAMBDA e : e.message = "Transitioned to " \o e.stage)
                      /\ entry.workflow_stage = workflow_states[c].current_stage]_vars

\* C20 witness: an escalate decision was accepted for a claim held in Review,
\* and the claim is escalated with its workflow still in Review/Pending.
C20_Witness ==
    /\ audit_logs /= <<>>
    /\ audit_logs[1].action = "escalate"
    /\ audit_logs[1].next_stage = "senior_review"
    /\ LET c == audit_logs[1].claim_id
       IN /\ claims_db[c].status = "escalated"
          /\ workflow_states[c].current_stage = "review"
          /\ workflow_states[c].stage_status = "pending"

\* The step is an operation on claim c: an execute_workflow call for c starts,
\* resumes or ends, or the review endpoint accepts a decision on c
OperatesOn(c) ==
    \/ \E t \in Tasks :
          /\ tasks'[t].claim_id = c
          /\ tasks'[t] /= tasks[t] \/ (started' = started + 1 /\ FirstIdle(t))
    \/ /\ Len(audit_logs') = Len(audit_logs) + 1
       /\ audit_logs'[Len(audit_logs')].claim_id = c

\* C21: a step changes the WorkflowState of a claim only when it is an operation
\* on that claim, so operations on claim A leave claim B's current_stage, status,
\* stage_history, workflow_data and errors as they were; and a claim's state,
\* once created, is never dropped or started afresh (its history only grows).
C21_ClaimsAreIsolated ==
    [][/\ \A b \in DOMAIN workflow_states' :
            (b \notin DOMAIN workflow_states \/ workflow_states'[b] /= workflow_states[b])
            => OperatesOn(b)
       /\ AppendOnly]_vars

\* C21 witness: two calls are suspended at once, one in Decide for CLM-A and one
\* in Understand for CLM-B, each claim's state holding only its own events.
C21_Witness ==
    /\ tasks[1].pc = "fraud" /\ tasks[1].claim_id = "CLM-A"
    /\ tasks[2].pc = "validate" /\ tasks[2].claim_id = "CLM-B"
    /\ workflow_states["CLM-A"].current_stage = "decide"
    /\ workflow_states["CLM-B"].current_stage = "understand"
    /\ Len(workflow_states["CLM-B"].stage_history) = 3


\* The Deliver runner returned successfully in this step for claim c: its own
\* Deliver/Completed event was appended
DeliverSucceeded(c) ==
    Some(Appended(c), LAMBDA e : /\ e.stage = "deliver"
                                 /\ e.status = "completed"
                                 /\ e.data.key = "final_status"
                                 /\ e.message /= "Delivery stage completed (with error)")

\* C22: a stage runner sets (its stage, InProgress) on entry and leaves the
\* stage status Completed on success: a step in which the Deliver runner
\* succeeds has entered Deliver/InProgress and ends with stage_status Completed.
C22_RunnerEndsCompleted ==
    [][\A c \in DOMAIN workflow_states' :
         DeliverSucceeded(c)
         => /\ Some(Appended(c), LAMBDA e : /\ e.message = "Transitioned to deliver"
                                              /\ e.status = "in_progress")
            /\ workflow_states'[c].stage_status = "completed"]_vars


\* The stage whose runner was executing when task t's call failed in this step
FailedIn(t) ==
    IF tasks[t].pc = "idle" THEN "intake"
    ELSE IF tasks[t].pc = "validate" THEN "understand"
    ELSE IF Some(Appended(tasks'[t].claim_id), LAMBDA e : e.message = "Transitioned to deliver")
    THEN "deliver"
    ELSE "decide"

\* C23: when a stage runner fails, an event of that stage with status Failed is
\* appended to stage_history before the failure reaches the executor, that is
\* before the executor's transition to Error; this includes a failure of a
\* collaborator call inside Decide.
C23_FailedStageEventRecorded ==
    [][\A t \in Tasks :
         EndsRaising(t)
         => LET events == Appended(tasks'[t].claim_id)
            IN \E i \in 1..Len(events), j \in 1..Len(events) :
                  /\ i < j
                  /\ events[i].stage = FailedIn(t)
                  /\ events[i].status = "failed"
                  /\ events[j].message = "Transitioned to error"]_vars


\* The messages of the Decide events a step appended to claim c's history
DecideMessages(c) ==
    LET events == SelectSeq(Appended(c), LAMBDA e : e.stage = "decide")
    IN [i \in 1..Len(events) |-> events[i].message]

\* C24: within one Decide stage the collaborators are called in the order
\* similarity, fraud, policy, document, synthesis, each call made in the step in
\* which the one before it returned, and the stage's events are appended in that
\* order: the four progress events, then exactly one Decide/Completed event.
C24_DecideCallsInOrder ==
    [][\A t \in Tasks :
         LET c == tasks'[t].claim_id
             was == tasks[t].invoked
             is == tasks'[t].invoked
         IN /\ tasks'[t].pc = "fraud" /\ tasks[t].pc /= "fraud"
                => /\ tasks[t].pc = "validate"
                   /\ is = was \o <<"similarity", "fraud_detector">>
                   /\ DecideMessages(c) = <<"Transitioned to decide",
                                            "Fraud detection in progress">>
            /\ tasks'[t].pc = "policy" /\ tasks[t].pc /= "policy"
                => /\ tasks[t].pc = "fraud"
                   /\ is = Append(was, "policy_checker")
                   /\ DecideMessages(c) = <<"Policy verification in progress">>
            /\ tasks'[t].pc = "document" /\ tasks[t].pc /= "document"
                => /\ tasks[t].pc = "policy"
                   /\ is = Append(was, "document_analyzer")
                   /\ DecideMessages(c) = <<"Document analysis in progress">>
            /\ tasks'[t].pc = "decision" /\ tasks[t].pc /= "decision"
                => /\ tasks[t].pc = "document"
                   /\ is = Append(was, "decision_maker")
                   /\ DecideMessages(c) = <<"Final decision making in progress">>
            /\ Returns(t)
                => /\ was = <<"validator", "similarity", "fraud_detector", "policy_checker",
                              "document_analyzer", "decision_maker">>
                   /\ DecideMessages(c) =
                          <<"Decision completed: " \o claims_db'[c].analysis.overall_status>>
                   /\ Appended(c)[1].stage = "decide"
                   /\ Appended(c)[1].status = "completed"]_vars

\* C24 witness: a claim's history holds the events of one whole Decide stage,
\* the four progress events in order and then its Completed event.
C24_Witness ==
    \E c \in DOMAIN workflow_states :
        LET events == SelectSeq(workflow_states[c].stage_history,
                                LAMBDA e : e.stage = "decide")
        IN /\ Len(events) = 6
           /\ [i \in 1..6 |-> events[i].message] =
                  <<"Transitioned to decide", "Fraud detection in progress",
                    "Policy verification in progress", "Document analysis in progress",
                    "Final decision making in progress", "Decision completed: approved">>
           /\ events[6].status = "completed"


\* C25: when the submission passes Intake and every collaborator returns a
\* verdict, the call does not raise: a call that got past Intake ends by raising
\* only with a failure a collaborator (or the artifact generation of Deliver)
\* raised itself, never with one made by the way the executor calls it.
C25_VerdictsGiveNoError ==
    [][\A t \in Tasks :
         (EndsRaising(t) /\ tasks[t].pc /= "idle")
         => LET errors == workflow_states'[tasks'[t].claim_id].errors
            IN errors[Len(errors)].error \in {"collaborator call failed",
                                              "artifact generation failed"}]_vars


\* C26: after an accepted approve or modify decision whose Deliver stage ran, the
\* Deliver artifacts are those of the reviewer's outcome: final_status and the
\* claimant message template are "approved", the status the decision returned,
\* whatever the automated overall_status was.
C26_DeliverReflectsReviewer ==
    [][(Len(audit_logs') = Len(audit_logs) + 1
        /\ audit_logs'[Len(audit_logs')].action \in {"approve", "modify"}
        /\ DeliverSucceeded(audit_logs'[Len(audit_logs')].claim_id))
       => LET entry == audit_logs'[Len(audit_logs')]
              deliver == workflow_states'[entry.claim_id].workflow_data.deliver
          IN /\ entry.new_status = "approved"
             /\ deliver.final_status = entry.new_status
             /\ deliver.claimant_message = "approved"]_vars


\* C27: the event of stage Completed ("Workflow completed successfully") is
\* appended only by an execution whose Deliver stage completed; an execution that
\* pauses in Review/Pending appends none.
C27_CompletedOnlyAfterDeliver ==
    [][\A c \in DOMAIN workflow_states' :
         Some(Appended(c), LAMBDA e : e.stage = "completed")
         => /\ DeliverSucceeded(c)
            /\ ~Some(Appended(c), LAMBDA e : e.stage = "review" /\ e.status = "pending")]_vars


\* C28: for an accepted approve, modify or request_info decision the
\* Review/Completed event comes in stage_history before the event of the
\* transition into the next stage (Deliver or Intake).
C28_ReviewEndsBeforeNextStage ==
    [][(Len(audit_logs') = Len(audit_logs) + 1
        /\ audit_logs'[Len(audit_logs')].action \in {"approve", "modify", "request_info"}
        /\ audit_logs'[Len(audit_logs')].claim_id \in DOMAIN workflow_states)
       => LET events == Appended(audit_logs'[Len(audit_logs')].claim_id)
          IN \E i \in 1..Len(events), j \in 1..Len(events) :
                /\ i < j
                /\ events[i].stage = "review" /\ events[i].status = "completed"
                /\ events[j].message = "Transitioned to " \o events[j].stage
                /\ events[j].stage \in {"deliver", "intake"}
                /\ \A k \in 1..(i - 1) :
                       events[k].message /= "Transitioned to " \o events[k].stage]_vars


\* C29: the entry a failing call appends to WorkflowState.errors names in its
\* stage field the stage that was running when the failure occurred (intake,
\* understand, decide or deliver), not the Error stage.
C29_ErrorEntryNamesFailedStage ==
    [][\A t \in Tasks :
         EndsRaising(t)
         => LET errors == workflow_states'[tasks'[t].claim_id].errors
            IN /\ errors /= <<>>
               /\ errors[Len(errors)].stage = FailedIn(t)
               /\ errors[Len(errors)].stage /= "error"]_vars


\* The step is one call of the review endpoint: no execute_workflow call moves
\* and no claim is submitted
ReviewEndpointStep ==
    /\ tasks' = tasks
    /\ started' = started
    /\ DOMAIN claims_db' = DOMAIN claims_db

\* C30: a call of the review endpoint either is refused and changes nothing (the
\* claims, the workflow states and the audit log stay as they were), or is
\* accepted: the claim was in review_required and leaves it, so that it is decided
\* once, and exactly one entry is appended to the audit log.
C30_RefusedDecisionChangesNothing ==
    [][ReviewEndpointStep
       => \/ /\ claims_db' = claims_db
             /\ workflow_states' = workflow_states
             /\ audit_logs' = audit_logs
          \/ /\ Len(audit_logs') = Len(audit_logs) + 1
             /\ IsPrefix(audit_logs, audit_logs')
             /\ LET c == audit_logs'[Len(audit_logs')].claim_id
                IN /\ claims_db[c].status = "review_required"
                   /\ claims_db'[c].status /= "review_required"
                   /\ \A x \in DOMAIN claims_db \ {c} : claims_db'[x] = claims_db[x]]_vars


====
